---- MODULE Spec2Model ----
(***************************************************************************)
(* The tiered retrieval of the hotel review chatbot                        *)
(* (src/hotel_review_chatbot.py): perform_vector_search and the helpers    *)
(* it calls, check_vector_search_index, fallback_to_n1ql and               *)
(* fallback_search, run against a document store whose answers are chosen  *)
(* nondeterministically.  The earlier perform_vector_search kept in        *)
(* src/fully-documented-code.py is modelled beside it (the Documented      *)
(* actions).                                                               *)
(*                                                                         *)
(* Numbers: a distance or a similarity is an integer number of thousandths *)
(* (125 is 0.125); a formatted similarity ("%.2f") is an integer number of *)
(* hundredths.                                                             *)
(***************************************************************************)
EXTENDS Integers, Sequences, FiniteSets, TLC

VARIABLES
    pc,          \* position in main / perform_vector_search
    top_k,       \* the requested result count of the running call
    store,       \* the store as it is during the call: documents, query service
    issued,      \* the external calls made by the running call, in order
    probe,       \* what check_vector_search_index saw and returned
    embedded,    \* model.encode: "none", "ok" or "raised"
    searchA,     \* outcome of the SearchRequest call: "untried", "ok", "mismatch", "error"
    searchB,     \* outcome of the alternate call: "untried", "absent", "ok", "error"
    response,    \* the search response being processed (Tier A or B)
    tier,        \* the tier whose code built the returned list
    result,      \* the list perform_vector_search returned
    capability,  \* the session's knowledge of the index: "unprobed", "probed"
                 \* (probed, and no call to the store failed since), "invalidated"
    user_input,  \* the question of the running call
    statements   \* the statements the running call's tiers gave to cluster.query

vars == <<pc, top_k, store, issued, probe, embedded, searchA, searchB, response, tier, result,
          capability, user_input, statements>>

----------------------------------------------------------------------------
(* Bounds *)

MaxTopK == 2
MaxDocs == 3

----------------------------------------------------------------------------
(* Raw documents and hits *)

\* A score the store did not return: the key or attribute is absent.
NoScore == <<>>

FieldNames == {"hotel_name", "review_content", "review_author", "review_date", "review_ratings"}

\* A stored review with every field present.
FullFields ==
    [f \in FieldNames |->
        CASE f = "hotel_name"     -> "Hotel A"
          [] f = "review_content" -> "clean rooms"
          [] f = "review_author"  -> "Ann"
          [] f = "review_date"    -> "2024-01-01"
          [] f = "review_ratings" -> "Overall:4"]

\* A stored review without author and ratings.
SparseFields ==
    [f \in {"hotel_name", "review_content", "review_date"} |-> FullFields[f]]

\* What the store can hand back for one document: its distance to the query
\* (<<d>>, or NoScore), its fields, and how the SDK object behaves when it is read:
\*   "none"     it reads normally,
\*   "nofields" it exposes no content accessor,
\*   "raise"    reading it raises.
Hits ==
    { [dist |-> <<125>>,     fields |-> FullFields,   fault |-> "none"],
      [dist |-> <<1500>>,    fields |-> FullFields,   fault |-> "none"],
      [dist |-> NoScore, fields |-> SparseFields, fault |-> "none"],
      [dist |-> <<500>>,     fields |-> FullFields,   fault |-> "nofields"],
      [dist |-> <<250>>,     fields |-> FullFields,   fault |-> "raise"] }

RECURSIVE SeqsUpTo(_, _)
SeqsUpTo(S, n) ==
    IF n = 0 THEN { <<>> }
    ELSE LET shorter == SeqsUpTo(S, n - 1)
         IN  shorter \cup { Append(s, x) : s \in { t \in shorter : Len(t) = n - 1 }, x \in S }

Take(s, n) == SubSeq(s, 1, IF Len(s) < n THEN Len(s) ELSE n)

----------------------------------------------------------------------------
(* Scores *)

\* f"{similarity:.2f}": thousandths to hundredths, rounding half to even
\* (the values used are exact in binary, so this is Python's rounding).
Format2f(m) ==
    LET q == m \div 10
        r == m % 10
    IN  IF r < 5 THEN q
        ELSE IF r > 5 THEN q + 1
        ELSE IF q % 2 = 0 THEN q ELSE q + 1

\* The "similarity_score" of a result item: a formatted number or the
\* fallback marker.
Numeric(h) == [tag |-> "number", hundredths |-> h]
Unscored   == [tag |-> "N/A (fallback)", hundredths |-> 0]

\* dict.get(key, default)
Get(d, key, default) == IF key \in DOMAIN d THEN d[key] ELSE default

\* A result item with this default in place of "Anonymous".
ResultItemNoAuthor(fields, score) ==
    [ hotel_name       |-> Get(fields, "hotel_name", "Unknown Hotel"),
      review_content   |-> Get(fields, "review_content", "No content available"),
      review_author    |-> Get(fields, "review_author", ""),
      review_date      |-> Get(fields, "review_date", "Unknown date"),
      similarity_score |-> score,
      ratings          |-> Get(fields, "review_ratings", "{}") ]

ResultItem(fields, score) ==
    [ hotel_name       |-> Get(fields, "hotel_name", "Unknown Hotel"),
      review_content   |-> Get(fields, "review_content", "No content available"),
      review_author    |-> Get(fields, "review_author", "Anonymous"),
      review_date      |-> Get(fields, "review_date", "Unknown date"),
      similarity_score |-> score,
      ratings          |-> Get(fields, "review_ratings", "{}") ]

ErrorRecord == [error |-> "Search failed"]

IsError(r) == "error" \in DOMAIN r

----------------------------------------------------------------------------
(* Requests sent to the store, and what the store does with them *)

\* SearchOptions(limit=top_k, fields=[...])
SearchOptions(k) == [limit |-> k, fields |-> FieldNames]

\* The VECTOR_DISTANCE statement with a limit one too large.
VectorDistanceQueryOffByOne(k) ==
    [select |-> "vector_distance", order_by_distance |-> TRUE, limit |-> k + 1]

\* The VECTOR_DISTANCE statement of fallback_to_n1ql.
VectorDistanceQuery(k) ==
    [select |-> "vector_distance", order_by_distance |-> TRUE, limit |-> k]

\* The listing statement of fallback_search.
ListingQuery(k) ==
    [select |-> "doc_id", order_by_distance |-> FALSE, limit |-> k]

\* The questions a user asks, and model.encode(user_input).tolist().
Questions == {"quiet rooms", "good breakfast"}

NoQuestion == ""

encode(text) == IF text = "quiet rooms" THEN <<1, 0>> ELSE <<0, 1>>

CB_BUCKET == "travel-sample"

CB_SCOPE == "inventory"

CB_COLLECTION_TARGET == "reviewvector"

\* A statement is its text as the f-string builds it, the literal pieces and
\* the values put between them in order (the backquotes around the keyspace
\* names are left out), and the parameters given beside it.
\* The VECTOR_DISTANCE statement with the vector written into its text.
VectorDistanceStatementInlined(query_embedding, k) ==
    [ by         |-> "fallback_to_n1ql",
      text       |-> << "SELECT meta().id as doc_id, hotel_name, review_content, review_author, review_date, review_ratings, VECTOR_DISTANCE(embedding, ",
                        ToString(query_embedding),
                        ") AS distance_score FROM ", CB_BUCKET, ".", CB_SCOPE, ".", CB_COLLECTION_TARGET,
                        " WHERE embedding IS NOT NULL ORDER BY VECTOR_DISTANCE(embedding, ",
                        ToString(query_embedding),
                        ") LIMIT ", ToString(k) >>,
      parameters |-> << >> ]

\* vector_query and parameters={'query_vector': query_embedding}
VectorDistanceStatement(query_embedding, k) ==
    [ by         |-> "fallback_to_n1ql",
      text       |-> << "SELECT meta().id as doc_id, hotel_name, review_content, review_author, review_date, review_ratings, VECTOR_DISTANCE(embedding, ",
                        "$query_vector",
                        ") AS distance_score FROM ", CB_BUCKET, ".", CB_SCOPE, ".", CB_COLLECTION_TARGET,
                        " WHERE embedding IS NOT NULL ORDER BY VECTOR_DISTANCE(embedding, ",
                        "$query_vector",
                        ") LIMIT ", ToString(k) >>,
      parameters |-> << <<"query_vector", query_embedding>> >> ]

\* The listing statement of fallback_search, given without parameters.
ListingStatement(k) ==
    [ by         |-> "fallback_search",
      text       |-> << "SELECT META().id as doc_id FROM ", CB_BUCKET, ".", CB_SCOPE, ".",
                        CB_COLLECTION_TARGET, " LIMIT ", ToString(k) >>,
      parameters |-> << >> ]

\* ORDER BY VECTOR_DISTANCE(...): ascending, a missing value first, ties in
\* stored order.
DistanceKey(d) == IF d.dist = NoScore THEN -1000000 ELSE d.dist[1]

RECURSIVE InsertByDistance(_, _)
InsertByDistance(d, sorted) ==
    IF sorted = <<>> THEN <<d>>
    ELSE IF DistanceKey(d) < DistanceKey(Head(sorted)) THEN <<d>> \o sorted
    ELSE <<Head(sorted)>> \o InsertByDistance(d, Tail(sorted))

RECURSIVE OrderByDistance(_)
OrderByDistance(docs) ==
    IF docs = <<>> THEN <<>>
    ELSE InsertByDistance(docs[Len(docs)], OrderByDistance(SubSeq(docs, 1, Len(docs) - 1)))

\* cluster.query(statement): the rows the store returns.
ExecQuery(stmt, docs) ==
    Take(IF stmt.order_by_distance THEN OrderByDistance(docs) ELSE docs, stmt.limit)

\* scope.search / cluster.search: the hits in the store's own ranking, which
\* is the stored order here, cut at the requested limit.
ExecSearch(opts, docs) == Take(docs, opts.limit)

----------------------------------------------------------------------------
(* check_vector_search_index *)

VECTOR_INDEX_NAME == "review_vector_idx"

\* The names a cluster's search indexes can have.
IndexNames == {VECTOR_INDEX_NAME, "other_idx"}

\* What mgr.get_all_indexes() can do: raise, or return indexes with these names.
Enumerations ==
    { [raised |-> TRUE, names |-> {}] }
        \cup { [raised |-> FALSE, names |-> n] : n \in SUBSET IndexNames }

\* Any index at all counts as the vector index.
IndexListedAny(names) == names # {}

\* any(idx.name == VECTOR_INDEX_NAME for idx in indexes)
IndexListed(names) == \E name \in names : name = VECTOR_INDEX_NAME

\* The outcome of the enumeration, as check_vector_search_index branches on it.
Enumerated(e) ==
    IF e.raised THEN "raise"
    ELSE IF IndexListed(e.names) THEN "found" ELSE "missing"

\* mgmt: what mgr.get_all_indexes() did ("found": an index with the
\* configured name is listed, "missing": none is, "raise").
\* meta: what the system:indexes query did ("rows", "norows", "raise").
check_vector_search_index(mgmt, meta) ==
    IF mgmt # "raise" THEN mgmt = "found"
    ELSE IF meta = "raise" THEN FALSE
    ELSE meta = "rows"

\* The calls the probe makes.
ProbeCalls(mgmt) ==
    IF mgmt = "raise" THEN <<"get_all_indexes", "system:indexes">>
    ELSE <<"get_all_indexes">>

----------------------------------------------------------------------------
(* Processing of a search response (Tier A and Tier B) *)

\* A row of result.rows(): 1 - row.score(), or 0 when the row has no score.
RowSimilarity(row) == IF row.dist # NoScore THEN 1000 - row.dist[1] ELSE 0

RowItem(row) == ResultItem(row.fields, Numeric(Format2f(RowSimilarity(row))))

\* The loop over rows losing what it appended when a row raises.
ProcessRowsDropping(rows) ==
    IF \E i \in 1..Len(rows) : rows[i].fault = "raise" THEN <<>>
    ELSE LET read == SelectSeq(rows, LAMBDA row : row.fault = "none")
         IN  [i \in 1..Len(read) |-> RowItem(read[i])]

\* The loop over rows: a row without extractable fields is skipped, a row
\* that raises ends the loop with what was appended so far.
RECURSIVE ProcessRows(_)
ProcessRows(rows) ==
    IF rows = <<>> THEN <<>>
    ELSE LET row == Head(rows)
         IN  IF row.fault = "raise" THEN <<>>
             ELSE IF row.fault = "nofields" THEN ProcessRows(Tail(rows))
             ELSE <<RowItem(row)>> \o ProcessRows(Tail(rows))

\* An entry of result.hits: 1 - hit.get('score', 0).
HitSimilarity(hit) == 1000 - (IF hit.dist # NoScore THEN hit.dist[1] ELSE 0)

\* hit.get('fields', {})
HitFields(hit) == IF hit.fault = "nofields" THEN <<>> ELSE hit.fields

HitItem(hit) == ResultItem(HitFields(hit), Numeric(Format2f(HitSimilarity(hit))))

RECURSIVE ProcessHits(_)
ProcessHits(hits) ==
    IF hits = <<>> THEN <<>>
    ELSE LET hit == Head(hits)
         IN  IF hit.fault = "raise" THEN <<>>
             ELSE <<HitItem(hit)>> \o ProcessHits(Tail(hits))

\* The shapes a search response can have:
\*   "rows"      result.rows is callable and can be iterated again after
\*               len(list(rows)) consumed it,
\*   "rows_once" result.rows is callable and is a single-pass stream: the
\*               second result.rows() raises or yields nothing,
\*   "hits"      result.hits is a list,
\*   "none"      neither: ValueError, caught, nothing appended.
Shapes == {"rows", "rows_once", "hits", "none"}

ProcessResponse(resp) ==
    CASE resp.shape = "rows" -> ProcessRows(resp.items)
      [] resp.shape = "hits" -> ProcessHits(resp.items)
      [] OTHER               -> <<>>

----------------------------------------------------------------------------
(* fallback_to_n1ql (Tier C) *)

\* distance = row.get('distance_score', 0); similarity = 1 - distance
N1qlSimilarity(row) == 1000 - (IF row.dist # NoScore THEN row.dist[1] ELSE 0)

N1qlItem(row) == ResultItem(row.fields, Numeric(Format2f(N1qlSimilarity(row))))

\* n1ql: "ok" or "error" (cluster.query or the iteration raised).  Any
\* exception, also one raised by a row, returns the empty list.
fallback_to_n1ql(st, k) ==
    LET rows == ExecQuery(VectorDistanceQuery(k), st.docs)
    IN  IF st.n1ql = "error" \/ \E i \in 1..Len(rows) : rows[i].fault = "raise"
        THEN <<>>
        ELSE [i \in 1..Len(rows) |-> N1qlItem(rows[i])]

----------------------------------------------------------------------------
(* fallback_search (Tier D) *)

\* A fallback item given a made-up number instead of the marker.
FallbackItemScored(doc) == ResultItem(doc.fields, Numeric(0))

FallbackItem(doc) == ResultItem(doc.fields, Unscored)

\* The loop over the listed ids ending at the first document it cannot read.
RECURSIVE FetchAllStopping(_)
FetchAllStopping(rows) ==
    IF rows = <<>> THEN <<>>
    ELSE LET doc == Head(rows)
         IN  IF doc.fault # "none" THEN <<>>
             ELSE <<FallbackItem(doc)>> \o FetchAllStopping(Tail(rows))

\* The loop over the listed ids: a document whose get raises, or whose
\* GetResult exposes no content, is skipped.
RECURSIVE FetchAll(_)
FetchAll(rows) ==
    IF rows = <<>> THEN <<>>
    ELSE LET doc == Head(rows)
         IN  IF doc.fault # "none" THEN FetchAll(Tail(rows))
             ELSE <<FallbackItem(doc)>> \o FetchAll(Tail(rows))

\* connected: connect_to_capella returned a cluster (with None the next
\* line raises).  listing: "ok" or "error".
fallback_search(connected, st, k) ==
    IF ~connected \/ st.listing = "error" THEN <<ErrorRecord>>
    ELSE FetchAll(ExecQuery(ListingQuery(k), st.docs))

FallbackCalls(connected, st, k) ==
    IF ~connected THEN <<"connect">>
    ELSE IF st.listing = "error" THEN <<"connect", "D:list">>
    ELSE <<"connect", "D:list">> \o [i \in 1..Len(ExecQuery(ListingQuery(k), st.docs)) |-> "D:get"]

----------------------------------------------------------------------------
(* The session: main's loop calling perform_vector_search *)

Stores ==
    [ docs    : SeqsUpTo(Hits, MaxDocs),
      n1ql    : {"ok", "error"},
      listing : {"ok", "error"} ]

NoProbe    == [mgmt |-> "untried", names |-> {}, meta |-> "untried", exists |-> FALSE]
NoResponse == [shape |-> "none", items |-> <<>>]

\* The session before the first question, on one of the given stores.
SessionStart(stores) ==
    /\ pc = "idle"
    /\ top_k = 1
    /\ store \in stores
    /\ issued = <<>>
    /\ probe = NoProbe
    /\ embedded = "none"
    /\ searchA = "untried"
    /\ searchB = "untried"
    /\ response = NoResponse
    /\ tier = "none"
    /\ result = <<>>
    /\ capability = "unprobed"
    /\ user_input = NoQuestion
    /\ statements = <<>>

Init == SessionStart(Stores)

\* main reads a question and calls perform_vector_search(user_input, top_k).
Ask ==
    /\ pc = "idle"
    /\ \E k \in 1..MaxTopK : top_k' = k
    /\ pc' = "connect"
    /\ \E q \in Questions : user_input' = q
    /\ UNCHANGED <<store, issued, probe, embedded, searchA, searchB, response, tier, result, capability, statements>>

\* cluster = connect_to_capella(); None sends the call to fallback_search.
Connect ==
    /\ pc = "connect"
    /\ issued' = Append(issued, "connect")
    /\ \E connected \in BOOLEAN :
          /\ pc' = IF connected THEN "probe" ELSE "fallback"
          /\ capability' = IF connected THEN capability ELSE "invalidated"
    /\ UNCHANGED <<top_k, store, probe, embedded, searchA, searchB, response, tier, result, user_input, statements>>

\* if not check_vector_search_index(cluster): return fallback_search(...)
Probe ==
    /\ pc = "probe"
    /\ \E e \in Enumerations :
       \E meta \in IF e.raised THEN {"rows", "norows", "raise"} ELSE {"untried"} :
          LET mgmt == Enumerated(e)
          IN  /\ probe' = [mgmt |-> mgmt, names |-> e.names, meta |-> meta,
                           exists |-> check_vector_search_index(mgmt, meta)]
              /\ issued' = issued \o ProbeCalls(mgmt)
              /\ pc' = IF check_vector_search_index(mgmt, meta) THEN "scope" ELSE "fallback"
              /\ capability' = IF mgmt = "raise" THEN "invalidated" ELSE "probed"
    /\ UNCHANGED <<top_k, store, embedded, searchA, searchB, response, tier, result, user_input, statements>>

\* bucket = cluster.bucket(...); scope = bucket.scope(...): an exception
\* reaches the outer handler, which calls fallback_search.
OpenScope ==
    /\ pc = "scope"
    /\ \E ok \in BOOLEAN :
          /\ pc' = IF ok THEN "embed" ELSE "fallback"
          /\ capability' = IF ok THEN capability ELSE "invalidated"
    /\ UNCHANGED <<top_k, store, issued, probe, embedded, searchA, searchB, response, tier, result, user_input, statements>>

\* query_embedding = model.encode(user_input).tolist(): an exception reaches
\* the outer handler, which calls fallback_search.
Embed ==
    /\ pc = "embed"
    /\ issued' = Append(issued, "encode")
    /\ \E ok \in BOOLEAN :
          /\ embedded' = IF ok THEN "ok" ELSE "raised"
          /\ pc' = IF ok THEN "tierA" ELSE "fallback"
    /\ UNCHANGED <<top_k, store, probe, searchA, searchB, response, tier, result, capability, user_input, statements>>

\* Tier A: the SearchRequest call on the scope.  AttributeError ("mismatch")
\* enters the alternative approach, any other exception the outer handler.
TierA ==
    /\ pc = "tierA"
    /\ issued' = Append(issued, "A")
    /\ \E out \in {"ok", "mismatch", "error"} :
          /\ searchA' = out
          /\ pc' = CASE out = "ok" -> "process"
                     [] out = "mismatch" -> "tierB"
                     [] OTHER -> "fallback"
          /\ IF out = "ok"
             THEN \E shape \in Shapes :
                     response' = [shape |-> shape,
                                  items |-> ExecSearch(SearchOptions(top_k), store.docs)]
             ELSE response' = response
          /\ capability' = IF out = "ok" THEN capability ELSE "invalidated"
    /\ UNCHANGED <<top_k, store, probe, embedded, searchB, tier, result, user_input, statements>>

\* The alternative call sending a failed call back to the first one.
TierBRetry ==
    /\ pc = "tierB"
    /\ \E out \in {"absent", "ok", "error"} :
          /\ searchB' = out
          /\ issued' = IF out = "absent" THEN issued ELSE Append(issued, "B")
          /\ pc' = CASE out = "ok" -> "process"
                     [] out = "absent" -> "tierC"
                     [] OTHER -> "tierA"
          /\ IF out = "ok"
             THEN \E shape \in Shapes :
                     response' = [shape |-> shape,
                                  items |-> ExecSearch(SearchOptions(top_k), store.docs)]
             ELSE response' = response
          /\ capability' = IF out = "error" THEN "invalidated" ELSE capability
    /\ UNCHANGED <<top_k, store, probe, embedded, searchA, tier, result, user_input, statements>>

\* Tier B: cluster.search with a bare VectorQuery when the cluster has
\* search_query; without it the call goes to fallback_to_n1ql, and an
\* exception of the alternative call goes to fallback_search.
TierB ==
    /\ pc = "tierB"
    /\ \E out \in {"absent", "ok", "error"} :
          /\ searchB' = out
          /\ issued' = IF out = "absent" THEN issued ELSE Append(issued, "B")
          /\ pc' = CASE out = "ok" -> "process"
                     [] out = "absent" -> "tierC"
                     [] OTHER -> "fallback"
          /\ IF out = "ok"
             THEN \E shape \in Shapes :
                     response' = [shape |-> shape,
                                  items |-> ExecSearch(SearchOptions(top_k), store.docs)]
             ELSE response' = response
          /\ capability' = IF out = "error" THEN "invalidated" ELSE capability
    /\ UNCHANGED <<top_k, store, probe, embedded, searchA, tier, result, user_input, statements>>

\* return fallback_to_n1ql(cluster, query_embedding, top_k)
TierC ==
    /\ pc = "tierC"
    /\ issued' = Append(issued, "C")
    /\ result' = fallback_to_n1ql(store, top_k)
    /\ tier' = "C"
    /\ pc' = "done"
    /\ capability' = IF store.n1ql = "error" THEN "invalidated" ELSE capability
    /\ statements' = Append(statements, VectorDistanceStatement(encode(user_input), top_k))
    /\ UNCHANGED <<top_k, store, probe, embedded, searchA, searchB, response, user_input>>

\* The processing of the search response with the records of fallback_search
\* appended to its own.
ProcessMerging ==
    /\ pc = "process"
    /\ result' = ProcessResponse(response) \o fallback_search(TRUE, store, top_k)
    /\ tier' = IF searchB = "ok" THEN "B" ELSE "A"
    /\ pc' = "done"
    /\ UNCHANGED <<top_k, store, issued, probe, embedded, searchA, searchB, response, capability, user_input, statements>>

\* The processing of the search response and the return of scored_results.
Process ==
    /\ pc = "process"
    /\ result' = ProcessResponse(response)
    /\ tier' = IF searchB = "ok" THEN "B" ELSE "A"
    /\ pc' = "done"
    /\ UNCHANGED <<top_k, store, issued, probe, embedded, searchA, searchB, response, capability, user_input, statements>>

\* return fallback_search(user_input, top_k)
Fallback ==
    /\ pc = "fallback"
    /\ \E connected \in BOOLEAN :
          /\ result' = fallback_search(connected, store, top_k)
          /\ issued' = issued \o FallbackCalls(connected, store, top_k)
          /\ statements' = IF connected THEN Append(statements, ListingStatement(top_k))
                                         ELSE statements
          /\ capability' = IF fallback_search(connected, store, top_k) = <<ErrorRecord>>
                            THEN "invalidated" ELSE capability
    /\ tier' = "D"
    /\ pc' = "done"
    /\ UNCHANGED <<top_k, store, probe, embedded, searchA, searchB, response, user_input>>

\* display_results(search_results), and main waits for the next question.
Display ==
    /\ pc = "done"
    /\ pc' = "idle"
    /\ issued' = <<>>
    /\ probe' = NoProbe
    /\ embedded' = "none"
    /\ searchA' = "untried"
    /\ searchB' = "untried"
    /\ response' = NoResponse
    /\ tier' = "none"
    /\ result' = <<>>
    /\ top_k' = 1
    /\ user_input' = NoQuestion
    /\ statements' = <<>>
    /\ UNCHANGED <<store, capability>>

Next ==
    \/ Ask
    \/ Connect
    \/ Probe
    \/ OpenScope
    \/ Embed
    \/ TierA
    \/ TierB
    \/ TierC
    \/ Process
    \/ Fallback
    \/ Display

Spec == Init /\ [][Next]_vars

----------------------------------------------------------------------------
(* perform_vector_search of src/fully-documented-code.py: two calls of     *)
(* scope.search, then the hits of the response or its rows fetched by key  *)

\* f"{1-score:.2f}" with score = hit.get('score', 0)
DocumentedHitItem(hit) ==
    ResultItem(hit.fields,
               Numeric(Format2f(1000 - (IF hit.dist # NoScore THEN hit.dist[1] ELSE 0))))

\* The loop over result.hits: a hit that is not a dict with 'fields' is
\* passed over.
RECURSIVE DocumentedHits(_)
DocumentedHits(hits) ==
    IF hits = <<>> THEN <<>>
    ELSE LET hit == Head(hits)
         IN  IF hit.fault # "none" THEN DocumentedHits(Tail(hits))
             ELSE <<DocumentedHitItem(hit)>> \o DocumentedHits(Tail(hits))

\* One row: collection.get(row.id); when that fails ("nofields") the
\* statement selecting the document by its id, whose failure is swallowed.
\* row.score is read inside both attempts, so a row without a score fails
\* both and yields nothing.
DocumentedRow(row, n1ql) ==
    IF row.dist = NoScore THEN <<>>
    ELSE IF row.fault = "nofields" /\ n1ql = "error" THEN <<>>
    ELSE <<ResultItem(row.fields, Numeric(Format2f(1000 - row.dist[1])))>>

\* The loop over list(result.rows()): a row whose id cannot be read
\* ("raise") ends the loop, the items appended so far are kept.
RECURSIVE DocumentedRows(_, _)
DocumentedRows(rows, n1ql) ==
    IF rows = <<>> THEN <<>>
    ELSE LET row == Head(rows)
         IN  IF row.fault = "raise" THEN <<>>
             ELSE DocumentedRow(row, n1ql) \o DocumentedRows(Tail(rows), n1ql)

\* Hits first; with no item from hits, result.rows(), called once here.  A
\* response without rows raises inside the try, which returns the empty list.
DocumentedResults(resp, n1ql) ==
    CASE resp.shape = "hits" -> DocumentedHits(resp.items)
      [] resp.shape \in {"rows", "rows_once"} -> DocumentedRows(resp.items, n1ql)
      [] OTHER -> <<>>

DocumentedAsk ==
    /\ pc = "idle"
    /\ \E k \in 1..MaxTopK : top_k' = k
    /\ pc' = "documented_connect"
    /\ \E q \in Questions : user_input' = q
    /\ UNCHANGED <<store, issued, probe, embedded, searchA, searchB, response, tier, result, capability, statements>>

\* connect_to_capella() returns a cluster or ends the process (sys.exit);
\* bucket, scope and collection follow, a CouchbaseException of theirs
\* returns the empty list.
DocumentedConnect ==
    /\ pc = "documented_connect"
    /\ issued' = Append(issued, "connect")
    /\ \E out \in {"ok", "exit", "raise"} :
          pc' = CASE out = "ok" -> "documented_embed"
                  [] out = "exit" -> "exited"
                  [] OTHER -> "done"
    /\ UNCHANGED <<top_k, store, probe, embedded, searchA, searchB, response, tier, result, capability, user_input, statements>>

\* model.encode(user_input).tolist(): its exception is no CouchbaseException
\* and leaves perform_vector_search; main reports it and returns.
DocumentedEmbed ==
    /\ pc = "documented_embed"
    /\ issued' = Append(issued, "encode")
    /\ \E ok \in BOOLEAN :
          /\ embedded' = IF ok THEN "ok" ELSE "raised"
          /\ pc' = IF ok THEN "documented_tierA" ELSE "exited"
    /\ UNCHANGED <<top_k, store, probe, searchA, searchB, response, tier, result, capability, user_input, statements>>

\* scope.search with the SearchRequest; any exception goes to the
\* alternative call.
DocumentedTierA ==
    /\ pc = "documented_tierA"
    /\ issued' = Append(issued, "A")
    /\ \E out \in {"ok", "error"} :
          /\ searchA' = out
          /\ pc' = IF out = "ok" THEN "documented_process" ELSE "documented_tierB"
          /\ IF out = "ok"
             THEN \E shape \in Shapes :
                     response' = [shape |-> shape,
                                  items |-> ExecSearch(SearchOptions(top_k), store.docs)]
             ELSE response' = response
    /\ UNCHANGED <<top_k, store, probe, embedded, searchB, tier, result, capability, user_input, statements>>

\* scope.search with the bare VectorQuery; its CouchbaseException returns
\* the empty list, any other exception ("crash") leaves the function.
DocumentedTierB ==
    /\ pc = "documented_tierB"
    /\ issued' = Append(issued, "B")
    /\ \E out \in {"ok", "error", "crash"} :
          /\ searchB' = out
          /\ pc' = CASE out = "ok" -> "documented_process"
                    [] out = "error" -> "done"
                    [] OTHER -> "exited"
          /\ IF out = "ok"
             THEN \E shape \in Shapes :
                     response' = [shape |-> shape,
                                  items |-> ExecSearch(SearchOptions(top_k), store.docs)]
             ELSE response' = response
    /\ UNCHANGED <<top_k, store, probe, embedded, searchA, tier, result, capability, user_input, statements>>

\* The processing of the response and the return of scored_results.
DocumentedProcess ==
    /\ pc = "documented_process"
    /\ result' = DocumentedResults(response, store.n1ql)
    /\ tier' = IF searchB = "ok" THEN "B" ELSE "A"
    /\ pc' = "done"
    /\ UNCHANGED <<top_k, store, issued, probe, embedded, searchA, searchB, response, capability, user_input, statements>>

DocumentedNext ==
    \/ DocumentedAsk
    \/ DocumentedConnect
    \/ DocumentedEmbed
    \/ DocumentedTierA
    \/ DocumentedTierB
    \/ DocumentedProcess
    \/ Display

SpecDocumented == Init /\ [][DocumentedNext]_vars

\* A session of either program.
SpecPrograms == Init /\ [][Next \/ DocumentedNext]_vars

----------------------------------------------------------------------------
(* The same session on a store of well-formed, scored reviews *)

\* Hits that read normally and carry a distance; two of them tie.
RankedHits ==
    { [dist |-> <<100>>, fields |-> FullFields,   fault |-> "none"],
      [dist |-> <<200>>, fields |-> FullFields,   fault |-> "none"],
      [dist |-> <<200>>, fields |-> SparseFields, fault |-> "none"],
      [dist |-> <<125>>, fields |-> FullFields,   fault |-> "none"] }

RankedStores ==
    [ docs    : SeqsUpTo(RankedHits, MaxDocs),
      n1ql    : {"ok", "error"},
      listing : {"ok", "error"} ]

InitRanked == SessionStart(RankedStores)

SpecRanked == InitRanked /\ [][Next]_vars

----------------------------------------------------------------------------
(* Either program on a store of one review with any of its fields absent *)

FieldHits ==
    { [dist |-> <<125>>, fields |-> [f \in present |-> FullFields[f]], fault |-> "none"] :
        present \in SUBSET FieldNames }

FieldStores ==
    [ docs    : { <<h>> : h \in FieldHits },
      n1ql    : {"ok", "error"},
      listing : {"ok", "error"} ]

InitFields == SessionStart(FieldStores)

SpecFields == InitFields /\ [][Next \/ DocumentedNext]_vars

----------------------------------------------------------------------------
(* Properties *)

Range(s) == { s[i] : i \in DOMAIN s }

Returned == pc = "done"

IsNumeric(r) == ~IsError(r) /\ r.similarity_score.tag = "number"

\* What Tier C yields for the store of this call.
TierCResults == fallback_to_n1ql(store, top_k)

\* C1: when Tier A raises an interface mismatch, the alternate call shape
\* does not succeed, and the VECTOR_DISTANCE query works and has data, the
\* call returns Tier C's normalized results.
C1_MismatchReturnsTierC ==
    (Returned /\ searchA = "mismatch" /\ searchB # "ok"
        /\ store.n1ql = "ok" /\ TierCResults # <<>>)
    => result = TierCResults

\* No tier's query interface answers: the search calls do not succeed and
\* the query service fails every statement sent to it.
AllTiersUnreachable ==
    /\ searchA # "ok"
    /\ searchB # "ok"
    /\ probe.meta \notin {"rows", "norows"}
    /\ store.n1ql = "error"
    /\ store.listing = "error"

\* C2: when no tier's query interface answers, the call returns the error
\* record and never an empty list.
C2_UnreachableReturnsError ==
    (Returned /\ AllTiersUnreachable) => result = <<ErrorRecord>>

\* C3: the returned sequence is never longer than top_k.
C3_LengthAtMostTopK ==
    Returned => Len(result) <= top_k

\* Tier C returned top_k records from a store that holds more documents.
C3_Witness ==
    /\ Returned
    /\ tier = "C"
    /\ Len(store.docs) > top_k
    /\ Len(result) = top_k

\* C4: every numeric similarity of a returned record lies in [0,1].
C4_SimilarityInUnitInterval ==
    \A i \in 1..Len(result) :
        IsNumeric(result[i]) =>
            /\ result[i].similarity_score.hundredths >= 0
            /\ result[i].similarity_score.hundredths <= 100

\* C5: every record built by Tier D carries the unscored marker.
C5_TierDUnscored ==
    tier = "D" =>
        \A i \in 1..Len(result) :
            ~IsError(result[i]) => result[i].similarity_score = Unscored

\* Tier D returned a record for a document the store holds a distance for.
C5_Witness ==
    /\ Returned
    /\ tier = "D"
    /\ Len(result) >= 1
    /\ ~IsError(result[1])
    /\ \E i \in 1..Len(store.docs) :
          store.docs[i].fault = "none" /\ store.docs[i].dist # NoScore

\* C6: when the store returns no score for any document, no returned
\* record carries a numeric similarity.
C6_NoDefaultedScore ==
    (Returned /\ \A i \in 1..Len(store.docs) : store.docs[i].dist = NoScore)
    => \A i \in 1..Len(result) : ~IsNumeric(result[i])

\* C7: an empty list is returned only when the last tier, Tier D, has been
\* attempted in the call.
C7_EmptyOnlyAfterAllTiers ==
    (Returned /\ result = <<>>) => "D:list" \in Range(issued)

\* C8: in a call that probed the index, Tier D's listing query is issued
\* only after the VECTOR_DISTANCE query of Tier C was attempted.
C8_TierDAfterTierC ==
    probe.mgmt # "untried" =>
        \A i \in 1..Len(issued) :
            issued[i] = "D:list" => \E j \in 1..(i - 1) : issued[j] = "C"

\* C9: when the probe itself fails (both the management call and the
\* metadata query raise), the call still attempts Tier A.
C9_ProbeFailureStillTriesTierA ==
    (Returned /\ probe.mgmt = "raise" /\ probe.meta = "raise")
    => "A" \in Range(issued)

TierCalls == {"A", "B", "C", "D:list", "D:get"}

\* C10: when model.encode raises, the call returns the failure outcome and
\* issues no tier query.
C10_EmbeddingFailureIsFatal ==
    (Returned /\ embedded = "raised")
    => /\ result = <<ErrorRecord>>
       /\ Range(issued) \cap TierCalls = {}

\* C11: across the questions of one session the index probe is executed
\* at most once, unless a tier call failed since the last probe.
C11_ProbeOncePerSession ==
    [][(pc = "probe" /\ pc' # "probe") => capability # "probed"]_vars

\* The position of the first occurrence of a call in the log (0: none).
FirstIndex(log, call) ==
    IF call \in Range(log)
    THEN CHOOSE i \in 1..Len(log) :
            log[i] = call /\ \A j \in 1..(i - 1) : log[j] # call
    ELSE 0

\* C20: the probe enumerates the search indexes first and issues the
\* system:indexes query exactly when the enumeration raised; with an
\* enumeration it answers whether the configured name is listed, without
\* one whether the metadata query returned a row (false when that raised).
C20_ProbeDecision ==
    probe.mgmt # "untried" =>
        /\ "get_all_indexes" \in Range(issued)
        /\ ("system:indexes" \in Range(issued)) <=> (probe.mgmt = "raise")
        /\ "system:indexes" \in Range(issued) =>
              FirstIndex(issued, "get_all_indexes") < FirstIndex(issued, "system:indexes")
        /\ probe.mgmt # "raise" => (probe.exists <=> VECTOR_INDEX_NAME \in probe.names)
        /\ probe.mgmt = "raise" => (probe.exists <=> probe.meta = "rows")
        /\ (pc = "scope") => probe.exists

\* The enumeration raised and the metadata query found the index.
C20_Witness ==
    /\ probe.mgmt = "raise"
    /\ probe.meta = "rows"
    /\ probe.exists
    /\ pc = "scope"

Min(a, b) == IF a < b THEN a ELSE b

\* Tier A returned, and its response exposes rows or hits.
TierAReturned ==
    Returned /\ tier = "A" /\ response.shape \in {"rows", "rows_once", "hits"}

\* The record comes from the document: same fields, defaults where absent.
FromDocument(r, doc) ==
    /\ ~IsError(r)
    /\ r.hotel_name = Get(doc.fields, "hotel_name", "Unknown Hotel")
    /\ r.review_author = Get(doc.fields, "review_author", "Anonymous")
    /\ r.ratings = Get(doc.fields, "review_ratings", "{}")

\* C12: from n well-formed hits Tier A returns min(top_k, n) records, in the
\* store's order, whose similarities are 1 - d_i (to the two decimals the
\* record keeps).
C12_TierAKeepsStoreOrder ==
    TierAReturned =>
        /\ Len(result) = Min(top_k, Len(store.docs))
        /\ \A i \in 1..Len(result) :
              /\ FromDocument(result[i], store.docs[i])
              /\ IsNumeric(result[i])
              /\ result[i].similarity_score.hundredths * 10 - (1000 - store.docs[i].dist[1]) \in -5..5

\* C13: a list returned by Tier A, B or C is sorted by similarity,
\* highest first.
C13_SortedDescending ==
    (Returned /\ tier \in {"A", "B", "C"}) =>
        \A i \in 1..Len(result) : \A j \in 1..Len(result) :
            i < j => result[i].similarity_score.hundredths >= result[j].similarity_score.hundredths

\* The only stored review has none of the given fields.
Lacks(names) == \A d \in Range(store.docs) : DOMAIN d.fields \cap names = {}

\* C14: a review without review_author and review_ratings comes back, from
\* whichever tier answered, as a record with review_author "Anonymous" and
\* ratings {}.
C14_AuthorAndRatingsDefaults ==
    (Returned /\ Lacks({"review_author", "review_ratings"})) =>
        \A r \in Range(result) :
            ~IsError(r) => r.review_author = "Anonymous" /\ r.ratings = "{}"

C14_Witness ==
    /\ Returned /\ Lacks({"review_author", "review_ratings"})
    /\ tier = "C"
    /\ Len(result) = 1 /\ ~IsError(result[1])

\* C15: a review without review_date comes back with review_date the empty
\* string, and a review without review_content comes back with a placeholder
\* rather than being dropped.
C15_DateAndContentDefaults ==
    /\ (Returned /\ Lacks({"review_date"})) =>
          \A r \in Range(result) : ~IsError(r) => r.review_date = ""
    /\ (Returned /\ Lacks({"review_content"}) /\ tier = "C" /\ store.n1ql = "ok") =>
          /\ Len(result) = 1
          /\ result[1].review_content = "No content available"

\* What each tier's normalization can make of a document d.
NormalizedBy(t, d) ==
    CASE t = "search" ->
             {RowItem(d), HitItem(d), DocumentedHitItem(d)}
             \cup { ResultItem(d.fields, Numeric(Format2f(1000 - e.dist[1]))) :
                      e \in IF d.dist = NoScore THEN {} ELSE {d} }
      [] t = "C" -> {N1qlItem(d)}
      [] t = "D" -> {FallbackItem(d)}

\* Every record of the list is one tier's normalization of a document that
\* tier was given.
BuiltBy(t, list) ==
    \A r \in Range(list) :
        \E d \in (IF t = "search" THEN Range(response.items) ELSE Range(store.docs)) :
            r \in NormalizedBy(t, d)

\* The tiers whose call the running call of perform_vector_search has made.
Attempted ==
    { t \in {"search", "C", "D"} :
        \E i \in 1..Len(issued) :
            \/ t = "search" /\ issued[i] \in {"A", "B"}
            \/ t = "C" /\ issued[i] = "C"
            \/ t = "D" /\ issued[i] = "D:list" }

\* C16: a returned list that is not empty is the error record of
\* fallback_search or is built by one tier that was attempted in this call,
\* from the response that tier got: no list holds records of two tiers.
C16_OneTierPerList ==
    (Returned /\ result # <<>>) =>
        \/ result = <<ErrorRecord>>
        \/ \E t \in Attempted : BuiltBy(t, result)

C16_Witness ==
    /\ Returned
    /\ Len(result) = 2
    /\ Len(issued) > 0 /\ \E i \in 1..Len(issued) : issued[i] = "A"
    /\ tier = "D"

\* The priority of the tier a logged call belongs to, 0 for other calls.
Priority(call) ==
    CASE call = "A" -> 1
      [] call = "B" -> 2
      [] call = "C" -> 3
      [] call = "D:list" -> 4
      [] OTHER -> 0

\* C19: within one call the tiers are attempted in the order A, B, C, D:
\* a later attempt is always of a strictly lower-priority tier, so none is
\* attempted twice and none after a lower-priority one.
C19_TiersInPriorityOrder ==
    \A i, j \in 1..Len(issued) :
        (i < j /\ Priority(issued[i]) > 0 /\ Priority(issued[j]) > 0)
            => Priority(issued[i]) < Priority(issued[j])

C19_Witness ==
    /\ Returned
    /\ \E i, j, k \in 1..Len(issued) :
          issued[i] = "A" /\ issued[j] = "B" /\ issued[k] = "D:list"

\* C18: the text of every statement a retrieval tier issues is the same
\* whatever the question and its embedding are: it is the text the same
\* top_k gives for any other question, and the embedding travels only as
\* the bound parameter query_vector.
C18_StatementTextIndependent ==
    \A i \in 1..Len(statements) :
        LET st == statements[i]
        IN  /\ \A q \in Questions :
                  st.text = IF st.by = "fallback_to_n1ql"
                            THEN VectorDistanceStatement(encode(q), top_k).text
                            ELSE ListingStatement(top_k).text
            /\ \A n \in 1..Len(st.text) :
                  st.text[n] \notin {user_input, ToString(encode(user_input))}
            /\ st.by = "fallback_to_n1ql" =>
                  st.parameters = << <<"query_vector", encode(user_input)>> >>

C18_Witness ==
    /\ Returned
    /\ user_input = "good breakfast"
    /\ top_k = 2
    /\ Len(statements) = 1
    /\ statements[1].by = "fallback_to_n1ql"

\* fallback_search got as far as its listing query, and the query succeeded.
ListingSucceeded == "D:list" \in Range(issued) /\ store.listing = "ok"

\* The listed documents whose fetch by key gives their content, in listing order.
Fetched == SelectSeq(Take(store.docs, top_k), LAMBDA d : d.fault = "none")

\* C21: when the listing query of fallback_search has succeeded, the result
\* holds exactly one unscored record per listed document whose fetch
\* succeeded, in listing order, the others being skipped; the error record
\* is returned only when the connection or the listing query failed.
C21_FailedFetchIsSkipped ==
    (Returned /\ tier = "D") =>
        IF ListingSucceeded
        THEN /\ Len(result) = Len(Fetched)
             /\ \A i \in 1..Len(result) :
                   /\ FromDocument(result[i], Fetched[i])
                   /\ result[i].similarity_score = Unscored
        ELSE result = <<ErrorRecord>>

C21_Witness ==
    /\ Returned /\ tier = "D" /\ ListingSucceeded
    /\ top_k = 2 /\ Len(store.docs) >= 2
    /\ store.docs[1].fault # "none"
    /\ store.docs[2].fault = "none"
    /\ Len(result) = 1

\* A native search call of the running call succeeded.
SearchSucceeded == searchA = "ok" \/ searchB = "ok"

\* The rows of the response that come before the first one that raises.
BeforeFailure ==
    LET raising == { i \in 1..Len(response.items) : response.items[i].fault = "raise" }
    IN  SubSeq(response.items, 1,
               IF raising = {} THEN Len(response.items)
               ELSE (CHOOSE i \in raising : \A j \in raising : i <= j) - 1)

\* C22: when a native search call succeeded, whatever happens to the
\* processing of its response, no further tier is called, the error record
\* is not returned, and the result is what was accumulated: nothing from a
\* response with neither rows nor hits, and from rows only normalizations of
\* the rows before the first one that raised, all of them when they are well
\* formed.
C22_ProcessingFailureKeepsRecords ==
    (Returned /\ SearchSucceeded) =>
        /\ issued[Len(issued)] = (IF searchB = "ok" THEN "B" ELSE "A")
        /\ Range(issued) \cap {"C", "D:list", "D:get"} = {}
        /\ \A r \in Range(result) : ~IsError(r)
        /\ response.shape = "none" => result = <<>>
        /\ response.shape = "rows" =>
              /\ Len(result) <= Len(BeforeFailure)
              /\ \A r \in Range(result) :
                    IsNumeric(r) /\ \E d \in Range(BeforeFailure) : FromDocument(r, d)
              /\ (\A d \in Range(BeforeFailure) : d.fault = "none" /\ d.dist # NoScore)
                    => Len(result) = Len(BeforeFailure)

C22_Witness ==
    /\ Returned /\ SearchSucceeded
    /\ response.shape = "rows"
    /\ Len(response.items) = 2
    /\ response.items[1].fault = "none"
    /\ response.items[2].fault = "raise"
    /\ Len(result) = 1

====
